---- MODULE Spec2Model ----
(***************************************************************************)
(* Model of the air-quality fetch pipeline                                 *)
(* (src/Cloud_funcations/Fetch_Data_aqicn/main.py): the HTTP trigger,      *)
(* station discovery per city with retries, deduplication, per-station     *)
(* feed fetch, grouping by city, and the upload with its local fallback;   *)
(* and of the downstream processor (air-quality-processor/main.py, in its  *)
(* two copies), which turns an aggregate file into warehouse rows.         *)
(*                                                                         *)
(* Python values are modelled as follows.                                  *)
(*   - an optional JSON field is a set: {} when the key is missing (what   *)
(*     dict.get returns as None), {v} when it holds v;                     *)
(*   - a dict is a sequence of [key, val] entries in insertion order;      *)
(*   - a list is a sequence.                                               *)
(***************************************************************************)
EXTENDS Integers, Sequences, FiniteSets, TLC

\* ------------------------------------------------------------ bounds
\* Station ids the upstream API may return are 0..MaxId.
MaxId == 2
\* Most station entries the search endpoint returns in one run, all cities together.
MaxStations == 2
\* Most entries of an aggregate file handed to the downstream processor.
MaxEntries == 2

\* ------------------------------------------------- program constants
\* fetch_city_stations: max_retries = 3
max_retries == 3
\* fetch_city_stations: time.sleep(2), in seconds
RetryDelay == 2
\* MAX_WORKERS = int(os.getenv("MAX_WORKERS", "10")): the configured worker limit
\* (environment-configurable; the model runs with a small configured value).
MAX_WORKERS == 2
\* main: thai_cities (the model keeps the first and third configured city)
thai_cities == <<"Bangkok", "Phuket">>

Cities == {thai_cities[i] : i \in 1..Len(thai_cities)}
Ids == 0..MaxId

\* ------------------------------------------------------ Python values
None == {}
\* Python truthiness of an optional integer: None and 0 are falsy.
Truthy(x) == x # None /\ x # {0}
\* Python's "a or b"
PyOr(a, b) == IF Truthy(a) THEN a ELSE b
Val(x) == CHOOSE v \in x : TRUE

\* A station entry as the search endpoint returns it: a flat uid, a uid nested
\* under "station", both or neither.
Entry(u, n) == [uid |-> u, nuid |-> n]
StationEntries ==
    {Entry({k}, None) : k \in Ids} \cup
    {Entry(None, {k}) : k \in 1..1} \cup
    {Entry(None, None)} \cup
    {Entry({0}, {k}) : k \in MaxId..MaxId}

RECURSIVE SeqsUpTo(_, _)
SeqsUpTo(S, n) ==
    IF n = 0 THEN {<<>>}
    ELSE LET shorter == SeqsUpTo(S, n - 1)
         IN  shorter \cup {Append(s, x) : s \in {t \in shorter : Len(t) = n - 1}, x \in S}

\* ------------------------------------------------------------- state
VARIABLES
    TOKEN,          \* whether the TOKEN environment variable is set
    workers,        \* the worker limit read from the environment
    pc,             \* main's position
    cst,            \* per city: state of its discovery task in the pool
    attempt,        \* per city: loop index of fetch_city_stations
    cres,           \* per city: the value fetch_city_stations returned
    outcomes,       \* per city: what each search request met (history)
    body,           \* per city: the entries of the successful response (history)
    sleeps,         \* per city: the delays slept between attempts, in seconds (history)
    city_stations,  \* main: dict city -> stations
    unique_stations,\* main: dict station id -> station
    fst,            \* per fetch task: state in the pool
    fres,           \* per fetch task: the value fetch_station_data returned
    completed,      \* tasks of the current pool in the order they finished (history)
    feedResp,       \* per station id: what the feed endpoint answers
    feedReqs,       \* per station id: number of feed requests issued (history)
    results,        \* main: list of readings
    data_by_city,   \* main: dict city -> readings
    bucket,         \* objects written to the bucket, in order
    localFile,      \* content of the local fallback file, <<>> when not written
    localWrites,    \* number of local fallback writes attempted (history)
    ret,            \* what main returned
    \* the downstream processor (air-quality-processor/main.py)
    variant,        \* which of the two source files is deployed
    file,           \* the aggregate file named by the notification: its entries
    ppc,            \* process_gcs_file's position
    rows,           \* rows_to_insert
    insert,         \* what insert_rows_json did (history)
    outcome         \* what process_gcs_file gave back to its trigger

vars == <<TOKEN, workers, completed, pc, cst, attempt, cres, outcomes, body,
          sleeps, city_stations,
          unique_stations, fst, fres, feedResp, feedReqs, results, data_by_city,
          bucket, localFile, localWrites, ret,
          variant, file, ppc, rows, insert, outcome>>

discoveryVars == <<cst, attempt, cres, outcomes, body, sleeps>>
fetchVars == <<fst, fres, feedResp, feedReqs>>
mainVars == <<city_stations, unique_stations, results, data_by_city>>
sinkVars == <<bucket, localFile, localWrites>>
processorVars == <<variant, file, ppc, rows, insert, outcome>>
pipelineVars == <<TOKEN, workers, completed, pc, discoveryVars, fetchVars,
                  mainVars, sinkVars, ret>>

NoReturn == [kind |-> "none", success |-> FALSE, stations_processed |-> 0,
             cities_covered |-> <<>>, output_file |-> "none"]

\* process_gcs_file has not returned (or is not running at all)
Pending == [kind |-> "pending", success |-> FALSE, status |-> 0]

\* No notification is being processed.
ProcessorIdle ==
    /\ variant = "none"
    /\ file = <<>>
    /\ ppc = "idle"
    /\ rows = <<>>
    /\ insert = "none"
    /\ outcome = Pending

\* The fetch service before a request
InitRun ==
    /\ completed = <<>>
    /\ pc = "start"
    /\ cst = [c \in Cities |-> "unsubmitted"]
    /\ attempt = [c \in Cities |-> 0]
    /\ cres = [c \in Cities |-> <<>>]
    /\ outcomes = [c \in Cities |-> <<>>]
    /\ body = [c \in Cities |-> <<>>]
    /\ sleeps = [c \in Cities |-> <<>>]
    /\ city_stations = <<>>
    /\ unique_stations = <<>>
    /\ fst = <<>>
    /\ fres = <<>>
    /\ feedResp = [k \in Ids |-> "unasked"]
    /\ feedReqs = [k \in Ids |-> 0]
    /\ results = <<>>
    /\ data_by_city = <<>>
    /\ bucket = <<>>
    /\ localFile = <<>>
    /\ localWrites = 0
    /\ ret = NoReturn

\* The service runs with the configured worker limit.
Init ==
    /\ TOKEN \in BOOLEAN
    /\ workers = MAX_WORKERS
    /\ InitRun
    /\ ProcessorIdle

\* The worker limit is whatever the environment sets, from 1 up.
InitAnyWorkers ==
    /\ TOKEN \in BOOLEAN
    /\ workers \in 1..MAX_WORKERS
    /\ InitRun
    /\ ProcessorIdle

\* ------------------------------------------------------------- main(): start
\* "if not TOKEN:" guards everything below it in main
TokenCheckSkipped == TRUE
TokenPresent == TOKEN

\* main, "if not TOKEN": return the error result at once.
MissingToken ==
    /\ pc = "start"
    /\ ~TOKEN
    /\ pc' = "returned"
    /\ ret' = [NoReturn EXCEPT !.kind = "error"]
    /\ UNCHANGED <<processorVars, TOKEN, workers, completed, discoveryVars,
                   fetchVars, mainVars, sinkVars>>

\* main: executor.submit(fetch_city_stations, city) for every city.
SubmitDiscovery ==
    /\ pc = "start"
    /\ TokenPresent
    /\ pc' = "discover"
    /\ cst' = [c \in Cities |-> "queued"]
    /\ UNCHANGED <<processorVars, TOKEN, workers, completed, attempt, cres,
                   outcomes, body, sleeps, fetchVars, mainVars, sinkVars, ret>>

\* ------------------------------------------------- fetch_city_stations
\* main: ThreadPoolExecutor(max_workers=min(MAX_WORKERS, len(thai_cities)))
Min(a, b) == IF a <= b THEN a ELSE b
DiscoveryPoolOfAll == Len(thai_cities)
DiscoveryPoolSize == Min(workers, Len(thai_cities))

Running(st, S) == {x \in S : st[x] = "running"}

\* A pool worker takes the next queued task: tasks leave the queue in the
\* order they were submitted, and at most DiscoveryPoolSize run at once.
CityStart(i) ==
    /\ pc = "discover"
    /\ cst[thai_cities[i]] = "queued"
    /\ \A j \in 1..(i - 1) : cst[thai_cities[j]] # "queued"
    /\ Cardinality(Running(cst, Cities)) < DiscoveryPoolSize
    /\ cst' = [cst EXCEPT ![thai_cities[i]] = "running"]
    /\ UNCHANGED <<processorVars, TOKEN, workers, completed, pc, attempt, cres,
                   outcomes, body, sleeps, fetchVars, mainVars, sinkVars, ret>>

\* "for station in stations: station['source_city'] = city"
TagStations(stations, city) ==
    [i \in 1..Len(stations) |->
        [uid |-> stations[i].uid, nuid |-> stations[i].nuid, source_city |-> city]]

\* time.sleep(2) before attempt a + 1: the same delay every time
DelayGrowing(a) == RetryDelay * (a + 1)
Delay(a) == RetryDelay

\* "if attempt < max_retries - 1": sleep and try again, else give up
ShouldRetryOff(a) == a < max_retries - 2
ShouldRetry(a) == a < max_retries - 1

\* Entries the search endpoint has already returned to the other cities.
Returned(c) ==
    LET RECURSIVE Sum(_)
        Sum(S) == IF S = {} THEN 0
                  ELSE LET x == CHOOSE y \in S : TRUE IN Len(body[x]) + Sum(S \ {x})
    IN  Sum(Cities \ {c})

\* The request raised a requests.exceptions.RequestException (transport
\* error, timeout, or raise_for_status on a non-2xx status).
SearchFails(c) ==
    /\ pc = "discover"
    /\ cst[c] = "running"
    /\ outcomes' = [outcomes EXCEPT ![c] = Append(@, "fail")]
    /\ IF ShouldRetry(attempt[c])
       THEN /\ sleeps' = [sleeps EXCEPT ![c] = Append(@, Delay(attempt[c]))]
            /\ attempt' = [attempt EXCEPT ![c] = @ + 1]
            /\ UNCHANGED <<cst, cres, completed>>
       ELSE /\ cres' = [cres EXCEPT ![c] = <<>>]
            /\ cst' = [cst EXCEPT ![c] = "done"]
            /\ completed' = Append(completed, c)
            /\ UNCHANGED <<sleeps, attempt>>
    /\ UNCHANGED <<processorVars, TOKEN, workers, pc, body, fetchVars,
                   mainVars, sinkVars, ret>>

\* The request returned 2xx with a JSON body that is not {data: [entry, ...]}
\* (the API's own error answer is {"status": "error", "data": "<message>"}):
\* .get on a non-dict, len() of a non-sized "data" or the item assignment on
\* a non-dict entry raises an exception that is no RequestException, so the
\* except clause does not catch it and it leaves fetch_city_stations. (A body
\* that is no JSON at all raises a RequestException or a ValueError, depending
\* on the requests version: SearchFails or this action.)
SearchMalformed(c) ==
    /\ pc = "discover"
    /\ cst[c] = "running"
    /\ outcomes' = [outcomes EXCEPT ![c] = Append(@, "malformed")]
    /\ cst' = [cst EXCEPT ![c] = "raised"]
    /\ completed' = Append(completed, c)
    /\ UNCHANGED <<processorVars, TOKEN, workers, pc, attempt, cres, body,
                   sleeps, fetchVars, mainVars, sinkVars, ret>>

\* The request returned 2xx with {data: b}: tag the entries and return them.
SearchSucceeds(c) ==
    /\ pc = "discover"
    /\ cst[c] = "running"
    /\ \E b \in SeqsUpTo(StationEntries, MaxStations - Returned(c)) :
        /\ body' = [body EXCEPT ![c] = b]
        /\ cres' = [cres EXCEPT ![c] = TagStations(b, c)]
    /\ outcomes' = [outcomes EXCEPT ![c] = Append(@, "ok")]
    /\ cst' = [cst EXCEPT ![c] = "done"]
    /\ completed' = Append(completed, c)
    /\ UNCHANGED <<processorVars, TOKEN, workers, pc, attempt, sleeps,
                   fetchVars, mainVars, sinkVars, ret>>

\* ------------------------------------------------- main(): collect, dedup
\* Python dicts as sequences of entries
Keys(d) == {d[i].key : i \in 1..Len(d)}

\* "for future in future_to_city: ... if stations: city_stations[city] = stations"
\* (a task that raised is logged and contributes nothing)
ContributesUnlessAnyRaised(c) ==
    /\ \A d \in Cities : cst[d] # "raised"
    /\ cst[c] = "done"
    /\ cres[c] # <<>>
Contributes(c) == cst[c] = "done" /\ cres[c] # <<>>

\* "for future in future_to_city": the futures are asked in the order the
\* cities were submitted, whatever the order the tasks finished in.
AsCitiesCompleted == completed
CityCollectionOrder == thai_cities

RECURSIVE CollectCities(_)
CollectCities(i) ==
    IF i = 0 THEN <<>>
    ELSE LET c == CityCollectionOrder[i]
         IN  IF Contributes(c)
             THEN Append(CollectCities(i - 1), [key |-> c, val |-> cres[c]])
             ELSE CollectCities(i - 1)

\* future.result() blocks until its task has finished, and the loop asks every
\* future: main goes on only when no task of the pool is outstanding.
NoneQueued(st) == \A x \in DOMAIN st : st[x] # "queued"
AllSucceeded(st) == \A x \in DOMAIN st : st[x] = "done"
AllFinished(st) == \A x \in DOMAIN st : st[x] \in {"done", "raised"}

\* The "with ThreadPoolExecutor" block ends when every task has finished; the
\* locals of the finished fetch_city_stations calls (and the history kept of
\* them here) are gone, the returned lists live on.
CollectDiscovery ==
    /\ pc = "discover"
    /\ AllFinished(cst)
    /\ city_stations' = CollectCities(Len(thai_cities))
    /\ pc' = "dedup"
    /\ attempt' = [c \in Cities |-> 0]
    /\ outcomes' = [c \in Cities |-> <<>>]
    /\ body' = [c \in Cities |-> <<>>]
    /\ sleeps' = [c \in Cities |-> <<>>]
    /\ UNCHANGED <<processorVars, TOKEN, workers, completed, cst, cres,
                   fetchVars, unique_stations, results, data_by_city, sinkVars,
                   ret>>

\* "for stations in city_stations.values(): all_stations.extend(stations)"
RECURSIVE Flatten(_)
Flatten(d) == IF d = <<>> THEN <<>> ELSE d[1].val \o Flatten(Tail(d))

\* station.get("uid") or station.get("station", {}).get("uid")
StationKey(station) == PyOr(station.uid, station.nuid)

\* "if station_id and station_id not in unique_stations: unique_stations[station_id] = station"
Inserts(acc, id) == Truthy(id) /\ Val(id) \notin Keys(acc)

RECURSIVE Dedup(_, _)
Dedup(all, acc) ==
    IF all = <<>> THEN acc
    ELSE LET id == StationKey(Head(all))
         IN  IF Inserts(acc, id)
             THEN Dedup(Tail(all), Append(acc, [key |-> Val(id), val |-> Head(all)]))
             ELSE Dedup(Tail(all), acc)

RemoveDuplicates ==
    /\ pc = "dedup"
    /\ unique_stations' = Dedup(Flatten(city_stations), <<>>)
    /\ pc' = "submit"
    /\ UNCHANGED <<processorVars, TOKEN, workers, completed, discoveryVars,
                   fetchVars, city_stations, results, data_by_city, sinkVars,
                   ret>>

\* ------------------------------------------------- fetch_station_data
\* main: futures = [executor.submit(fetch_station_data, station)
\*                  for station in unique_stations.values()]
SubmitFetch ==
    /\ pc = "submit"
    /\ fst' = [i \in 1..Len(unique_stations) |-> "queued"]
    /\ fres' = [i \in 1..Len(unique_stations) |-> <<>>]
    /\ completed' = <<>>
    /\ pc' = "fetch"
    /\ UNCHANGED <<processorVars, TOKEN, workers, discoveryVars, feedResp,
                   feedReqs, mainVars, sinkVars, ret>>

\* main: ThreadPoolExecutor(max_workers=MAX_WORKERS)
FetchPoolSize == workers

\* A pool worker takes the next queued fetch task.
FetchStart(i) ==
    /\ pc = "fetch"
    /\ fst[i] = "queued"
    /\ \A j \in 1..(i - 1) : fst[j] # "queued"
    /\ Cardinality(Running(fst, DOMAIN fst)) < FetchPoolSize
    /\ fst' = [fst EXCEPT ![i] = "running"]
    /\ UNCHANGED <<processorVars, TOKEN, workers, completed, pc, discoveryVars,
                   fres, feedResp, feedReqs, mainVars, sinkVars, ret>>

\* if "uid" in station: int(station["uid"])
\* elif "station" in station and "uid" in station["station"]: int(station["station"]["uid"])
\* else: return None
ResolveId(station) ==
    IF station.uid # None THEN station.uid
    ELSE IF station.nuid # None THEN station.nuid
    ELSE None

\* data["meta"] = {"city": station.get("source_city", "Unknown"), "station_id": station_id, ...}
Reading(station, id) == [station_id |-> id, city |-> station.source_city]

\* What fetch_station_data returns for each answer of the feed endpoint: the
\* enriched data on a non-empty body, the empty (falsy) data as it is, None
\* when the request or the parse raised.
FetchedKeepsEmpty(station, id, answer) ==
    IF answer \in {"ok", "empty"} THEN <<Reading(station, id)>> ELSE <<>>
Fetched(station, id, answer) ==
    IF answer = "ok" THEN <<Reading(station, id)>> ELSE <<>>

FeedAnswers == {"ok", "empty", "fail"}

\* fetch_station_data(station) for the i-th entry of unique_stations
FetchStation(i) ==
    /\ pc = "fetch"
    /\ fst[i] = "running"
    /\ LET station == unique_stations[i].val
           id == ResolveId(station)
       IN  IF id = None
           THEN /\ fres' = [fres EXCEPT ![i] = <<>>]
                /\ UNCHANGED <<feedResp, feedReqs>>
           ELSE /\ feedReqs' = [feedReqs EXCEPT ![Val(id)] = @ + 1]
                /\ \E answer \in FeedAnswers :
                    /\ feedResp[Val(id)] \in {"unasked", answer}
                    /\ feedResp' = [feedResp EXCEPT ![Val(id)] = answer]
                    /\ fres' = [fres EXCEPT ![i] = Fetched(station, Val(id), answer)]
    /\ fst' = [fst EXCEPT ![i] = "done"]
    /\ completed' = Append(completed, i)
    /\ UNCHANGED <<processorVars, TOKEN, workers, pc, discoveryVars, mainVars,
                   sinkVars, ret>>

\* "for future in futures: data = future.result(); if data: results.append(data)"
RECURSIVE Concat(_)
Concat(seqs) == IF seqs = <<>> THEN <<>> ELSE Head(seqs) \o Concat(Tail(seqs))

\* "for future in futures": in the order the tasks were submitted
AsFetchesCompleted == completed
FetchCollectionOrder == [i \in DOMAIN fst |-> i]

CollectFetch ==
    /\ pc = "fetch"
    /\ AllFinished(fst)
    /\ results' = Concat([i \in DOMAIN fst |-> fres[FetchCollectionOrder[i]]])
    /\ pc' = "group"
    /\ UNCHANGED <<processorVars, TOKEN, workers, completed, discoveryVars,
                   fetchVars, city_stations, unique_stations, data_by_city,
                   sinkVars, ret>>

\* ------------------------------------------------- main(): group by city
\* city = item.get("meta", {}).get("city", "Unknown")
\* if city not in data_by_city: data_by_city[city] = []
\* data_by_city[city].append(item)
GroupOverwrites(acc, item) ==
    IF item.city \in Keys(acc)
    THEN [i \in 1..Len(acc) |->
            IF acc[i].key = item.city
            THEN [key |-> acc[i].key, val |-> <<item>>]
            ELSE acc[i]]
    ELSE Append(acc, [key |-> item.city, val |-> <<item>>])
GroupWithEmptyKeys(acc, item) ==
    IF item.city \in Keys(acc)
    THEN [i \in 1..Len(acc) |->
            IF acc[i].key = item.city
            THEN [key |-> acc[i].key, val |-> Append(acc[i].val, item)]
            ELSE acc[i]]
    ELSE acc \o <<[key |-> item.city, val |-> <<item>>], [key |-> "Unknown", val |-> <<>>]>>
GroupPrepends(acc, item) ==
    IF item.city \in Keys(acc)
    THEN [i \in 1..Len(acc) |->
            IF acc[i].key = item.city
            THEN [key |-> acc[i].key, val |-> <<item>> \o acc[i].val]
            ELSE acc[i]]
    ELSE Append(acc, [key |-> item.city, val |-> <<item>>])
GroupItem(acc, item) ==
    IF item.city \in Keys(acc)
    THEN [i \in 1..Len(acc) |->
            IF acc[i].key = item.city
            THEN [key |-> acc[i].key, val |-> Append(acc[i].val, item)]
            ELSE acc[i]]
    ELSE Append(acc, [key |-> item.city, val |-> <<item>>])

RECURSIVE GroupByCity(_, _)
GroupByCity(items, acc) ==
    IF items = <<>> THEN acc
    ELSE GroupByCity(Tail(items), GroupItem(acc, Head(items)))

GroupData ==
    /\ pc = "group"
    /\ data_by_city' = GroupByCity(results, <<>>)
    /\ pc' = "upload"
    /\ UNCHANGED <<processorVars, TOKEN, workers, completed, discoveryVars,
                   fetchVars, city_stations, unique_stations, results,
                   sinkVars, ret>>

\* ------------------------------------------------- upload_to_gcs
\* json.dumps(data, indent=2) / json.dump(data, f, indent=2): the keys in
\* insertion order, under each key its items in list order.
Token(k, c, n) == [k |-> k, c |-> c, n |-> n]
RECURSIVE DumpItems(_)
DumpItems(items) ==
    IF items = <<>> THEN <<>>
    ELSE <<Token("item", Head(items).city, Head(items).station_id)>> \o DumpItems(Tail(items))
RECURSIVE DumpEntries(_)
DumpEntries(data) ==
    IF data = <<>> THEN <<>>
    ELSE <<Token("key", Head(data).key, Len(Head(data).val))>>
         \o DumpItems(Head(data).val) \o DumpEntries(Tail(data))
Dumps(data) == <<Token("dict", "all", Len(data))>> \o DumpEntries(data)

\* The summary object: cities, station_counts, total_stations
RECURSIVE Total(_)
Total(data) == IF data = <<>> THEN 0 ELSE Len(Head(data).val) + Total(Tail(data))
SummaryContent(data) ==
    [i \in 1..Len(data) |-> Token("count", data[i].key, Len(data[i].val))]
    \o <<Token("total", "all", Total(data))>>

\* The objects upload_to_gcs writes, in the order it writes them: the
\* aggregate, one object per city key, the summary.
Blob(name, content) == [name |-> name, content |-> content]
SinkObjectsWithoutSummary(data) ==
    <<Blob(<<"thailand_air_quality">>, Dumps(data))>>
    \o [i \in 1..Len(data) |->
            Blob(<<data[i].key, "air_quality">>,
                 <<Token("list", data[i].key, Len(data[i].val))>> \o DumpItems(data[i].val))]
SinkObjects(data) ==
    <<Blob(<<"thailand_air_quality">>, Dumps(data))>>
    \o [i \in 1..Len(data) |->
            Blob(<<data[i].key, "air_quality">>,
                 <<Token("list", data[i].key, Len(data[i].val))>> \o DumpItems(data[i].val))]
    \o <<Blob(<<"summary">>, SummaryContent(data))>>

\* What the except branch writes to the local file
FallbackWritesNothing(data) == <<>>
FallbackContent(data) == Dumps(data)

\* main's return value after the upload
SummaryDurablePath(path) ==
    [kind |-> "summary", success |-> TRUE, stations_processed |-> Len(results),
     cities_covered |-> [i \in 1..Len(data_by_city) |-> data_by_city[i].key],
     output_file |-> "gs"]
Summary(path) ==
    [kind |-> "summary", success |-> TRUE, stations_processed |-> Len(results),
     cities_covered |-> [i \in 1..Len(data_by_city) |-> data_by_city[i].key],
     output_file |-> path]
Raised == [NoReturn EXCEPT !.kind = "raised"]

\* main returns after the upload: its pools, the futures and their results
\* and the intermediate dicts are gone, and with them the history kept of the
\* requests of this run. The list of readings and the aggregate handed to
\* upload_to_gcs are kept, to tell what the sink was given.
MainReturns ==
    /\ pc' = "returned"
    /\ cst' = [c \in Cities |-> "unsubmitted"]
    /\ cres' = [c \in Cities |-> <<>>]
    /\ fst' = <<>>
    /\ fres' = <<>>
    /\ feedResp' = [k \in Ids |-> "unasked"]
    /\ feedReqs' = [k \in Ids |-> 0]
    /\ city_stations' = <<>>
    /\ unique_stations' = <<>>
    /\ completed' = <<>>
    /\ UNCHANGED <<processorVars, TOKEN, workers, attempt, outcomes, body,
                   sleeps, results, data_by_city>>

\* Every statement of the try block succeeds: "gs://bucket/blob" is returned.
UploadSucceeds ==
    /\ pc = "upload"
    /\ bucket' = SinkObjects(data_by_city)
    /\ ret' = Summary("gs")
    /\ MainReturns
    /\ UNCHANGED <<localFile, localWrites>>

\* A statement of the try block raises after n objects were written (n = 0
\* covers storage.Client(), bucket.exists() and create_bucket): the except
\* branch writes the local file, which succeeds or raises in its turn.
UploadFails(n, localOK) ==
    /\ pc = "upload"
    /\ n < Len(SinkObjects(data_by_city))
    /\ bucket' = SubSeq(SinkObjects(data_by_city), 1, n)
    /\ localWrites' = localWrites + 1
    /\ IF localOK
       THEN /\ localFile' = FallbackContent(data_by_city)
            /\ ret' = Summary("local")
       ELSE /\ localFile' = localFile
            /\ ret' = Raised
    /\ MainReturns

\* ------------------------------------------------------------ handle_request
\* The route handler returns main's result as it is. The framework turns a
\* returned dict into a JSON body with status 200 (no status is set anywhere
\* in the handler); an exception that leaves main becomes the framework's
\* 500 answer, whose body is the framework's error page.
HandleRequest(result) ==
    IF result.kind = "raised"
    THEN [status |-> 500, body |-> NoReturn]
    ELSE [status |-> 200, body |-> result]

Next ==
    \/ MissingToken
    \/ SubmitDiscovery
    \/ \E i \in 1..Len(thai_cities) : CityStart(i)
    \/ \E c \in Cities : SearchFails(c) \/ SearchMalformed(c) \/ SearchSucceeds(c)
    \/ CollectDiscovery
    \/ RemoveDuplicates
    \/ SubmitFetch
    \/ \E i \in DOMAIN fst : FetchStart(i) \/ FetchStation(i)
    \/ CollectFetch
    \/ GroupData
    \/ UploadSucceeds
    \/ \E n \in 0..(Len(thai_cities) + 1), localOK \in BOOLEAN : UploadFails(n, localOK)

Spec == Init /\ [][Next]_vars

\* The same runs under every worker limit the environment may set
SpecAnyWorkers == InitAnyWorkers /\ [][Next]_vars

\* Scheduling. The orchestrating thread goes on whenever it can (it blocks
\* only in future.result() and at the end of a "with" block); an idle pool
\* worker takes the next queued task; every search and feed request returns or
\* raises within REQUEST_TIMEOUT, and every call of the storage client and of
\* the local write returns or raises.
Fairness ==
    /\ WF_vars(MissingToken \/ SubmitDiscovery \/ CollectDiscovery
               \/ RemoveDuplicates \/ SubmitFetch \/ CollectFetch \/ GroupData)
    /\ WF_vars(\E i \in 1..Len(thai_cities) : CityStart(i))
    /\ \A c \in Cities :
          WF_vars(SearchFails(c) \/ SearchMalformed(c) \/ SearchSucceeds(c))
    /\ WF_vars(\E i \in DOMAIN fst : FetchStart(i))
    /\ WF_vars(\E i \in DOMAIN fst : FetchStation(i))
    /\ WF_vars(UploadSucceeds
               \/ \E n \in 0..(Len(thai_cities) + 1), localOK \in BOOLEAN :
                     UploadFails(n, localOK))

\* The runs in which every thread is scheduled and every request ends
SpecFair == Init /\ [][Next]_vars /\ Fairness


\* =============================================== the downstream processor
\* process_gcs_file of Cloud_funcations/air-quality-processor/main.py and of
\* air-quality-processor/main.py (the file deployed from the cloud console).
\* process_json_data is the same in both files; append_to_bigquery and
\* process_gcs_file differ.
Variants == {"Cloud_funcations", "deployed"}

\* ---- JSON values of an entry
\* A scalar is absent, an integer or a string; a string is the sequence of
\* its characters.
JsonAbsent == [t |-> "absent", n |-> 0, s |-> <<>>]
JsonInt(n) == [t |-> "int", n |-> n, s |-> <<>>]
JsonStr(s) == [t |-> "str", n |-> 0, s |-> s]

DigitChars == <<"0", "1", "2", "3", "4", "5", "6", "7", "8", "9">>
IsDigit(ch) == \E d \in 1..Len(DigitChars) : DigitChars[d] = ch
DigitValue(ch) == (CHOOSE d \in 1..Len(DigitChars) : DigitChars[d] = ch) - 1
AllDigits(s) == s # <<>> /\ \A i \in 1..Len(s) : IsDigit(s[i])
RECURSIVE DigitsValue(_)
DigitsValue(s) ==
    IF s = <<>> THEN 0
    ELSE 10 * DigitsValue(SubSeq(s, 1, Len(s) - 1)) + DigitValue(s[Len(s)])

\* Python's int(x) of an integer or a string: the integer, or no value where
\* int raises ValueError.
PyInt(x) ==
    IF x.t = "int" THEN {x.n}
    ELSE IF AllDigits(x.s) THEN {DigitsValue(x.s)}
    ELSE IF x.s # <<>> /\ Head(x.s) = "-" /\ AllDigits(Tail(x.s))
         THEN {0 - DigitsValue(Tail(x.s))}
    ELSE {}

\* "aqi": missing, the sentinel "-", an integer, a numeric string, another string
AqiValues ==
    {JsonAbsent, JsonStr(<<"-">>), JsonInt(42), JsonStr(<<"5", "7">>),
     JsonStr(<<"n", "a">>)}
\* "time": null, an object without (or with an empty) "iso", an object with "iso"
TimeValues ==
    {[k |-> "null", iso |-> ""], [k |-> "dict", iso |-> ""],
     [k |-> "dict", iso |-> "2025-04-01T07:00:00+07:00"]}
\* "city"."geo": missing, null, a [latitude, longitude] list
GeoValues ==
    {[k |-> "absent", v |-> <<>>], [k |-> "null", v |-> <<>>],
     [k |-> "list", v |-> <<13, 100>>]}

\* The aggregate file: the entries of its city lists, in the order
\* "for city, stations in json_data.items(): for station in stations" meets
\* them; "idx" numbers them.
Numbered(b) ==
    [i \in 1..Len(b) |->
        [idx |-> i, aqi |-> b[i].aqi, time |-> b[i].time, geo |-> b[i].geo]]
AggregateFiles ==
    {Numbered(b) :
        b \in SeqsUpTo([aqi : AqiValues, time : TimeValues, geo : GeoValues],
                       MaxEntries)}

\* ---- process_json_data
\* "if aqi == '-' or aqi is None: continue"
AqiMissing(aqi) == aqi = JsonStr(<<"-">>) \/ aqi.t = "absent"

\* "if not timestamp: continue"
TimestampUnchecked(time) == TRUE
HasTimestamp(time) == time.iso # ""

\* station.get("city", {}).get("geo", [None, None])[0] and [1]
Coordinate(geo, i) == IF geo.k = "list" THEN {geo.v[i]} ELSE None

\* The body of the loop for one entry: the row appended, or nothing when the
\* entry is skipped ("continue") or a statement raises, which the enclosing
\* "except Exception" answers with "continue" as well. station.get("time",
\* {}).get("iso") raises on a null "time", the subscript [0] raises on a null
\* "geo".
StationRow(station) ==
    IF AqiMissing(station.aqi) THEN <<>>
    ELSE IF PyInt(station.aqi) = {} THEN <<>>
    ELSE IF station.time.k = "null" THEN <<>>
    ELSE IF ~HasTimestamp(station.time) THEN <<>>
    ELSE IF station.geo.k = "null" THEN <<>>
    ELSE <<[station_id |-> station.idx,
            timestamp |-> station.time.iso,
            aqi |-> Val(PyInt(station.aqi)),
            latitude |-> Coordinate(station.geo, 1),
            longitude |-> Coordinate(station.geo, 2)]>>

RECURSIVE ProcessJsonData(_)
ProcessJsonData(stations) ==
    IF stations = <<>> THEN <<>>
    ELSE StationRow(Head(stations)) \o ProcessJsonData(Tail(stations))

\* ---- what process_gcs_file gives back
ReturnedNone == [kind |-> "none", success |-> FALSE, status |-> 0]
Returned2(success, status) ==
    [kind |-> "tuple", success |-> success, status |-> status]
RaisedToTrigger == [kind |-> "raised", success |-> FALSE, status |-> 0]

\* The message cannot be decoded or names no object: both files return at
\* once, the first one with a 400 pair, the deployed one with None.
RejectMessage ==
    /\ ppc = "triggered"
    /\ outcome' = IF variant = "deployed" THEN ReturnedNone
                  ELSE Returned2(FALSE, 400)
    /\ ppc' = "done"
    /\ UNCHANGED <<variant, file, rows, insert, pipelineVars>>

\* rows = process_json_data(file_path); a file that cannot be downloaded or
\* parsed gives the empty list.
ProcessJson(readable) ==
    /\ ppc = "triggered"
    /\ rows' = IF readable THEN ProcessJsonData(file) ELSE <<>>
    /\ ppc' = IF readable THEN "parsed" ELSE "unreadable"
    /\ UNCHANGED <<variant, file, insert, outcome, pipelineVars>>

\* What insert_rows_json may do with a non-empty list of rows
InsertResults == {"ok", "errors", "raises"}

\* append_to_bigquery of Cloud_funcations/...: True, or an exception when the
\* insert reported errors (or raised itself)
AppendToBigQuery(rs, result) ==
    IF rs = <<>> THEN "true"
    ELSE IF result = "ok" THEN "true" ELSE "raise"

\* append_to_bigquery of the deployed file: the reported errors are logged and
\* the function returns; only an exception of the insert call leaves it.
AppendToBigQueryDeployed(rs, result) ==
    IF rs = <<>> THEN "none"
    ELSE IF result = "raises" THEN "raise" ELSE "none"

\* The end of process_gcs_file of Cloud_funcations/...: try/except around
\* append_to_bigquery
GcsFileOutcome(appended) ==
    IF appended = "raise" THEN Returned2(FALSE, 500) ELSE Returned2(TRUE, 200)

\* The end of process_gcs_file of the deployed file: no try, a bare return
GcsFileOutcomeDeployed(appended) ==
    IF appended = "raise" THEN RaisedToTrigger ELSE ReturnedNone

AppendRows(result) ==
    /\ ppc \in {"parsed", "unreadable"}
    /\ insert' = IF rows = <<>> THEN "none" ELSE result
    /\ outcome' = IF variant = "deployed"
                  THEN GcsFileOutcomeDeployed(AppendToBigQueryDeployed(rows, result))
                  ELSE GcsFileOutcome(AppendToBigQuery(rows, result))
    /\ ppc' = "done"
    /\ UNCHANGED <<variant, file, rows, pipelineVars>>

\* A notification arrives for an aggregate file; the fetch service is at rest.
InitProcessor ==
    /\ TOKEN = TRUE
    /\ workers = MAX_WORKERS
    /\ InitRun
    /\ variant \in Variants
    /\ file \in AggregateFiles
    /\ ppc = "triggered"
    /\ rows = <<>>
    /\ insert = "none"
    /\ outcome = Pending

NextProcessor ==
    \/ RejectMessage
    \/ \E readable \in BOOLEAN : ProcessJson(readable)
    \/ \E result \in InsertResults : AppendRows(result)

SpecProcessor == InitProcessor /\ [][NextProcessor]_vars

\* =================================================================== claims
AllFailed(o) == \A i \in 1..Len(o) : o[i] = "fail"
TaskReturned(c) == pc = "discover" /\ cst[c] = "done"

\* C1: whatever the search endpoint does (transport error, timeout, non-2xx
\* status, or a 2xx answer whose body has not the expected shape),
\* fetch_city_stations never raises to its caller.
C1_NeverRaises == \A c \in Cities : cst[c] # "raised"

\* C2: a search that fails on attempts 1 and 2 and succeeds on attempt 3 with
\* a non-empty list returns that list (its entries, tagged with the city); a
\* search that fails every time has made exactly 3 attempts when it returns,
\* and returns the empty list.
C2_RetryOutcome ==
    \A c \in Cities : TaskReturned(c) =>
        /\ (outcomes[c] = <<"fail", "fail", "ok">> /\ body[c] # <<>>) =>
              /\ cres[c] # <<>>
              /\ Len(cres[c]) = Len(body[c])
              /\ \A i \in 1..Len(body[c]) :
                    /\ cres[c][i].uid = body[c][i].uid
                    /\ cres[c][i].nuid = body[c][i].nuid
        /\ AllFailed(outcomes[c]) => (Len(outcomes[c]) = 3 /\ cres[c] = <<>>)

\* One city returned a non-empty list on its third attempt while another
\* gave up after three failures.
C2_Witness ==
    \E c, d \in Cities :
        /\ TaskReturned(c) /\ TaskReturned(d)
        /\ outcomes[c] = <<"fail", "fail", "ok">> /\ cres[c] # <<>>
        /\ outcomes[d] = <<"fail", "fail", "fail">> /\ cres[d] = <<>>

\* ---- helpers of the claims below
\* The station id of an entry, as fetch_station_data resolves it
IdsOf(stations) ==
    {Val(ResolveId(stations[i])) :
        i \in {j \in 1..Len(stations) : ResolveId(stations[j]) # None}}
\* The station ids present in the discovery results
DiscoveredIds == UNION {IdsOf(cres[c]) : c \in Cities}
\* The first city, in merge order, whose discovery returned id k
IsFirstCity(j, k) ==
    /\ k \in IdsOf(cres[thai_cities[j]])
    /\ \A l \in 1..(j - 1) : k \notin IdsOf(cres[thai_cities[l]])
Owner(k) == thai_cities[CHOOSE j \in 1..Len(thai_cities) : IsFirstCity(j, k)]
Deduped == TOKEN /\ pc \in {"submit", "fetch", "group", "upload"}
Grouped == TOKEN /\ pc = "upload"
\* The id the i-th fetch task asks the feed endpoint for
FeedId(i) == Val(ResolveId(unique_stations[i].val))
Elems(seq) == {seq[i] : i \in 1..Len(seq)}
AllReadings == UNION {Elems(data_by_city[i].val) : i \in 1..Len(data_by_city)}

\* C3: after the dedup step, unique_stations has as many entries as there are
\* distinct station ids in the discovery results, and each entry's source_city
\* is the first city in which its id was observed.
C3_DedupDistinct ==
    Deduped =>
        /\ Len(unique_stations) = Cardinality(DiscoveredIds)
        /\ \A i \in 1..Len(unique_stations) :
              /\ unique_stations[i].key \in DiscoveredIds
              /\ unique_stations[i].val.source_city = Owner(unique_stations[i].key)

\* C4: a station whose feed request fails or returns an empty body produces no
\* reading: nothing is returned for it, and no reading of it is in results or
\* in any city's list of the aggregate.
C4_NoReadingOnFailure ==
    \A i \in DOMAIN fst :
        (fst[i] = "done" /\ feedResp[FeedId(i)] \in {"fail", "empty"}) =>
            /\ fres[i] = <<>>
            /\ \A r \in Elems(results) \cup AllReadings : r.station_id # FeedId(i)

\* The aggregate is built and holds a reading, while another station's feed
\* request failed.
C4_Witness ==
    /\ pc = "upload"
    /\ data_by_city # <<>>
    /\ \E i \in DOMAIN fst : feedResp[FeedId(i)] = "fail"

\* C5: the aggregate is the mapping that sends each city c to the readings of
\* exactly the station ids s for which c is the first city whose discovery
\* returned s and the feed of s answers with a non-empty body, whatever the
\* feed answers for each station.
FeedCompletions ==
    {f \in [Ids -> FeedAnswers] :
        \A k \in Ids : feedResp[k] # "unasked" => f[k] = feedResp[k]}
ExpectedIds(c, f) == {k \in DiscoveredIds : Owner(k) = c /\ f[k] = "ok"}
C5_AggregateByOwner ==
    Grouped =>
        \A f \in FeedCompletions :
            /\ Keys(data_by_city) = {c \in Cities : ExpectedIds(c, f) # {}}
            /\ \A i \in 1..Len(data_by_city) :
                  /\ Len(data_by_city[i].val) = Cardinality(ExpectedIds(data_by_city[i].key, f))
                  /\ Elems(data_by_city[i].val) =
                        {[station_id |-> k, city |-> data_by_city[i].key] :
                            k \in ExpectedIds(data_by_city[i].key, f)}

\* C6: when the aggregate is built, the lengths of its lists add up to the
\* number of unique stations whose feed answered with a non-empty body.
C6_AggregateTotal ==
    Grouped =>
        Total(data_by_city) =
            Cardinality({i \in DOMAIN fst : feedResp[FeedId(i)] = "ok"})

\* Two unique stations were fetched and exactly one of them got a reading.
C6_Witness ==
    /\ Grouped
    /\ Total(data_by_city) = 1
    /\ Len(unique_stations) = 2

\* C7: the keys of the aggregate are exactly the cities for which a reading
\* was produced, no key maps to an empty list, no key is repeated, and every
\* reading under key c has meta.city = c.
ProducedCities == {fres[i][1].city : i \in {j \in DOMAIN fres : fres[j] # <<>>}}
C7_AggregateKeys ==
    Grouped =>
        /\ Keys(data_by_city) = ProducedCities
        /\ Cardinality(Keys(data_by_city)) = Len(data_by_city)
        /\ \A i \in 1..Len(data_by_city) :
              /\ data_by_city[i].val # <<>>
              /\ \A r \in Elems(data_by_city[i].val) : r.city = data_by_city[i].key

\* Both cities discovered stations, but only one of them got a reading: it is
\* the only key of the aggregate.
C7_Witness ==
    /\ Grouped
    /\ Len(city_stations) = 2
    /\ Len(unique_stations) = 2
    /\ unique_stations[1].val.source_city # unique_stations[2].val.source_city
    /\ Len(data_by_city) = 1

\* ---- the sink
\* main has returned from a run in which a statement of upload_to_gcs's try
\* block raised: not every object reached the bucket.
SinkFailed == TOKEN /\ pc = "returned" /\ Len(bucket) < Len(SinkObjects(data_by_city))
\* The serialization the durable write sends (or would have sent) as the
\* aggregate object
DurableContent == SinkObjects(data_by_city)[1].content
LocalWritten == localFile # <<>>

\* C8 as stated: whenever the durable write raises, upload_to_gcs does not
\* raise; it writes the local file with the identical serialization and
\* returns its location.
C8_FallbackNeverRaises ==
    SinkFailed =>
        /\ ret.kind = "summary"
        /\ ret.output_file = "local"
        /\ localFile = DurableContent

\* C8 as amended: whenever the durable write raises, upload_to_gcs attempts
\* the local fallback write exactly once; if that write succeeds the file
\* holds the identical serialization and its location is returned, and if it
\* raises, the exception leaves upload_to_gcs.
C8_FallbackUnlessLocalFails ==
    SinkFailed =>
        /\ localWrites = 1
        /\ LocalWritten =>
              /\ ret.kind = "summary"
              /\ ret.output_file = "local"
              /\ localFile = DurableContent
        /\ ~LocalWritten => ret.kind = "raised"

\* The upload failed after the aggregate object was written, and the local
\* file holds a non-empty aggregate.
C8_Witness ==
    /\ SinkFailed
    /\ LocalWritten
    /\ Len(bucket) >= 1
    /\ data_by_city # <<>>
    /\ ret.output_file = "local"

C10_NoPartialProcessing ==
    ~TOKEN =>
        /\ \A c \in Cities : cst[c] = "unsubmitted" /\ outcomes[c] = <<>>
        /\ fst = <<>>
        /\ \A k \in Ids : feedReqs[k] = 0 /\ feedResp[k] = "unasked"
        /\ bucket = <<>>
        /\ localWrites = 0 /\ localFile = <<>>
        /\ pc = "returned" => (ret.kind = "error" /\ ~ret.success)

\* main returned the failure result of a run without token.
C10_Witness == ~TOKEN /\ pc = "returned" /\ ret.kind = "error"

\* C11: when the API token is unset, the HTTP trigger answers with the body
\* {success: false, error} and a server-error (5xx) status; every other run
\* that completes answers with the success summary.
C11_TriggerResponse ==
    pc = "returned" =>
        LET response == HandleRequest(ret)
        IN  IF ~TOKEN
            THEN /\ response.body.kind = "error"
                 /\ ~response.body.success
                 /\ response.status >= 500
            ELSE ret.kind # "raised" =>
                    /\ response.body.kind = "summary"
                    /\ response.body.success

\* C12: whatever combination of discovery tasks fails (an exception raised
\* inside a task included) and of feed requests fails, the run is not
\* aborted: every discovery task finishes and every city that returned
\* stations contributes them, every fetch task finishes and every reading
\* returned is collected, and the run goes on to the persist step.
C12_FailuresContained ==
    /\ (TOKEN /\ pc # "returned") => ENABLED Next
    /\ (TOKEN /\ pc \in {"dedup", "submit", "fetch", "group", "upload"}) =>
          \A c \in Cities :
              /\ cst[c] \in {"done", "raised"}
              /\ (cst[c] = "done" /\ cres[c] # <<>>) =>
                    \E i \in 1..Len(city_stations) :
                        city_stations[i] = [key |-> c, val |-> cres[c]]
    /\ (TOKEN /\ pc \in {"group", "upload"}) =>
          \A i \in DOMAIN fst :
              /\ fst[i] = "done"
              /\ \A j \in 1..Len(fres[i]) : fres[i][j] \in Elems(results)
    /\ (TOKEN /\ pc = "returned") => (bucket # <<>> \/ localWrites > 0)

\* One discovery task raised, the other city's stations were fetched, one
\* feed request failed, another one gave a reading, and the run has reached
\* the persist step with the aggregate holding that reading.
C12_Witness ==
    /\ pc = "upload"
    /\ \E c, d \in Cities : cst[c] = "raised" /\ cst[d] = "done" /\ cres[d] # <<>>
    /\ \E k, l \in Ids : feedResp[k] = "fail" /\ feedResp[l] = "ok"
    /\ results # <<>>
    /\ data_by_city # <<>>

\* C15: the phases of a run are strictly sequential: no dedup while a
\* discovery task is outstanding, no feed request (and no fetch task) before
\* dedup has finished, no reading collected or grouped while a fetch task is
\* outstanding, no sink write before the aggregate is complete.
Outstanding(st) == {x \in DOMAIN st : st[x] \in {"queued", "running"}}
C15_PhasesSequential ==
    /\ (pc \in {"submit", "fetch", "group", "upload", "returned"} /\ TOKEN) =>
          Outstanding(cst) = {}
    /\ unique_stations # <<>> => Outstanding(cst) = {}
    /\ (fst # <<>> \/ \E k \in Ids : feedReqs[k] > 0) =>
          /\ pc \in {"fetch", "group", "upload", "returned"}
          /\ unique_stations = Dedup(Flatten(city_stations), <<>>)
    /\ (pc \in {"group", "upload", "returned"} \/ results # <<>> \/ data_by_city # <<>>) =>
          Outstanding(fst) = {}
    /\ (bucket # <<>> \/ localFile # <<>> \/ localWrites > 0) =>
          /\ pc = "returned"
          /\ data_by_city = GroupByCity(results, <<>>)

\* A run with readings of both cities and a written aggregate has gone
\* through every phase.
C15_Witness ==
    /\ pc = "returned"
    /\ Len(data_by_city) = Len(thai_cities)
    /\ Len(results) > 1
    /\ bucket = SinkObjects(data_by_city)

\* C16: in every reachable state the number of search requests outstanding
\* at once is at most min(worker limit, number of cities), and the number of
\* feed requests outstanding at once is at most the worker limit, however
\* many cities or unique stations there are.
C16_PoolBounds ==
    /\ Cardinality(Running(cst, Cities)) <= Min(workers, Len(thai_cities))
    /\ Cardinality(Running(fst, DOMAIN fst)) <= workers

\* With a limit of one worker a fetch task waits in the queue while another
\* one is running, after the second discovery task had to wait for the
\* first to finish.
C16_Witness ==
    /\ workers < Len(thai_cities)
    /\ pc = "fetch"
    /\ \E i, j \in DOMAIN fst : fst[i] = "running" /\ fst[j] = "queued"

\* ---- what the upstream responses alone determine
\* The stations the search endpoint returned, city after city in the
\* configured order
RECURSIVE SearchResults(_)
SearchResults(i) ==
    IF i = 0 THEN <<>> ELSE SearchResults(i - 1) \o cres[thai_cities[i]]
\* The reading the feed endpoint's answer gives for a station
FeedReading(station) ==
    LET id == ResolveId(station)
    IN  IF id = None THEN <<>> ELSE Fetched(station, Val(id), feedResp[Val(id)])
ReadingsOf(stations) ==
    Concat([i \in 1..Len(stations) |-> FeedReading(stations[i].val)])
DeterminedAggregate ==
    GroupByCity(ReadingsOf(Dedup(SearchResults(Len(thai_cities)), <<>>)), <<>>)

\* C17: for fixed upstream responses (the search result of each city, the
\* feed answer of each station) the final aggregate, with its keys, its
\* readings and their order, is the same under every interleaving and every
\* completion order of the discovery tasks and of the fetch tasks: it is the
\* value the responses alone determine.
C17_AggregateDetermined ==
    /\ (TOKEN /\ pc = "group") =>
          results = ReadingsOf(Dedup(SearchResults(Len(thai_cities)), <<>>))
    /\ Grouped => data_by_city = DeterminedAggregate

\* The second fetch task finished before the first one, both gave a reading,
\* and the aggregate is built.
C17_Witness ==
    /\ Grouped
    /\ completed = <<2, 1>>
    /\ Len(results) = 2
    /\ data_by_city # <<>>

\* C18: the city that owns a station id after dedup does not depend on the
\* order in which the discovery tasks finished: it is the earliest city, in
\* the configured order, whose discovery returned an entry with that id.
ReturnedKey(c, k) ==
    \E i \in 1..Len(cres[c]) :
        Truthy(StationKey(cres[c][i])) /\ Val(StationKey(cres[c][i])) = k
EarliestCity(k) ==
    thai_cities[CHOOSE j \in 1..Len(thai_cities) :
        /\ ReturnedKey(thai_cities[j], k)
        /\ \A l \in 1..(j - 1) : ~ReturnedKey(thai_cities[l], k)]
C18_OwnerIsEarliestCity ==
    Deduped =>
        \A i \in 1..Len(unique_stations) :
            /\ \E c \in Cities : ReturnedKey(c, unique_stations[i].key)
            /\ unique_stations[i].val.source_city = EarliestCity(unique_stations[i].key)

\* The last city's discovery finished first, both cities returned the same
\* id, and the first city owns it.
C18_Witness ==
    /\ pc = "submit"
    /\ Len(completed) = Len(thai_cities)
    /\ completed[1] = thai_cities[Len(thai_cities)]
    /\ \E i \in 1..Len(unique_stations) :
          /\ \A c \in Cities : ReturnedKey(c, unique_stations[i].key)
          /\ unique_stations[i].val.source_city = thai_cities[1]

\* C19: each distinct station id receives at most one feed request in a run:
\* one request per entry of the dedup map, no retry, and no two entries that
\* resolve to the same station id at fetch time (the id used as dedup key and
\* the id fetch_station_data resolves from the entry agree).
RECURSIVE SumOver(_, _)
SumOver(f, S) ==
    IF S = {} THEN 0
    ELSE LET x == CHOOSE y \in S : TRUE IN f[x] + SumOver(f, S \ {x})
C19_OneRequestPerStation ==
    /\ \A k \in Ids : feedReqs[k] <= 1
    /\ Deduped =>
          /\ \A i \in 1..Len(unique_stations) :
                /\ ResolveId(unique_stations[i].val) # None
                /\ FeedId(i) = unique_stations[i].key
          /\ \A i, j \in 1..Len(unique_stations) : FeedId(i) = FeedId(j) => i = j
    /\ Grouped => SumOver(feedReqs, Ids) = Len(unique_stations)

\* C20: whatever the search requests of a city meet, fetch_city_stations
\* issues at most 3 of them and none after one has succeeded; it sleeps
\* 2 seconds after a failed attempt that is followed by another attempt, and
\* at no other time (not after the 3rd failure, not after a success); the
\* delay is the same every time.
C20_RetryDiscipline ==
    \A c \in Cities :
        /\ Len(outcomes[c]) <= 3
        /\ \A i \in 1..(Len(outcomes[c]) - 1) : outcomes[c][i] = "fail"
        /\ cst[c] = "running" => (AllFailed(outcomes[c]) /\ Len(outcomes[c]) < 3)
        /\ Len(sleeps[c]) =
              IF cst[c] = "running" \/ outcomes[c] = <<>>
              THEN Len(outcomes[c])
              ELSE Len(outcomes[c]) - 1
        /\ \A j \in 1..Len(sleeps[c]) : sleeps[c][j] = 2

\* One city gave up after three failures and two sleeps, another one
\* succeeded on its second attempt after one sleep.
C20_Witness ==
    \E c, d \in Cities :
        /\ TaskReturned(c) /\ TaskReturned(d)
        /\ outcomes[c] = <<"fail", "fail", "fail">> /\ sleeps[c] = <<2, 2>>
        /\ outcomes[d] = <<"fail", "ok">> /\ sleeps[d] = <<2>>

\* ---- the downstream processor
\* The validation the claims name: aqi present, not the sentinel "-",
\* integer-convertible, and a non-empty time.iso
ValidEntry(e) ==
    /\ e.aqi.t # "absent"
    /\ e.aqi # JsonStr(<<"-">>)
    /\ PyInt(e.aqi) # {}
    /\ e.time.k = "dict"
    /\ e.time.iso # ""
\* The row can be built: no member the row is read from is null
RowBuilds(e) == e.geo.k # "null"
RowOf(i) == {j \in 1..Len(rows) : rows[j].station_id = i}
InOrder(rs) == \A j, l \in 1..Len(rs) : j < l => rs[j].station_id < rs[l].station_id
Parsed == ppc = "parsed"

C14_InsertErrorsSurface ==
    (ppc = "done" /\ insert = "errors") =>
        \/ outcome.kind = "raised"
        \/ outcome.kind = "tuple" /\ ~outcome.success /\ outcome.status >= 500

\* ---- entries without a station id
\* A search-result entry with neither a flat uid nor a nested station.uid
Unidentified(e) == e.uid = None /\ e.nuid = None
UnidentifiedIn(stations) ==
    {i \in 1..Len(stations) : Unidentified(stations[i])}
\* What the claim holds of such an entry after discovery: it is not in the
\* dedup map, no fetch task (and so no feed request) exists for it, and no
\* reading of the aggregate comes from it.
NotPropagated ==
    /\ \A i \in 1..Len(unique_stations) : ~Unidentified(unique_stations[i].val)
    /\ \A i \in DOMAIN fst : ResolveId(unique_stations[i].val) # None
    /\ Grouped =>
          \A r \in AllReadings :
              \E i \in DOMAIN fst :
                  /\ fres[i] = <<r>>
                  /\ ~Unidentified(unique_stations[i].val)

\* C21: a search-result entry that has neither a flat uid nor a nested
\* station.uid is dropped at discovery time: it is not in the list discovery
\* returns for its city, it never enters the dedup map, no feed request is
\* ever issued for it, and it contributes no reading to the aggregate.
C21_DroppedAtDiscovery ==
    /\ \A c \in Cities : cst[c] = "done" => UnidentifiedIn(cres[c]) = {}
    /\ \A i \in 1..Len(city_stations) : UnidentifiedIn(city_stations[i].val) = {}
    /\ NotPropagated

\* ---- order within a city's list
\* The readings of a list that belong to city c, in the order of the list
RECURSIVE OfCity(_, _)
OfCity(readings, c) ==
    IF readings = <<>> THEN <<>>
    ELSE IF Head(readings).city = c
         THEN <<Head(readings)>> \o OfCity(Tail(readings), c)
         ELSE OfCity(Tail(readings), c)
\* What the fetch tasks returned, task after task in the order of submission
InSubmissionOrder == Concat([i \in DOMAIN fst |-> fres[i]])

\* C22: within each city's list of the aggregate the readings are in the
\* order in which their stations were submitted to the fetch phase, which is
\* the insertion order of the dedup map, whatever the order in which the feed
\* requests completed.
C22_SubmissionOrder ==
    Grouped =>
        /\ DOMAIN fst = 1..Len(unique_stations)
        /\ \A i \in DOMAIN fst :
              fres[i] # <<>> =>
                  fres[i] = <<Reading(unique_stations[i].val, FeedId(i))>>
        /\ \A k \in 1..Len(data_by_city) :
              data_by_city[k].val = OfCity(InSubmissionOrder, data_by_city[k].key)

\* Two stations of one city both gave a reading, the feed request of the
\* second one completed first, and the city's list holds the two readings.
C22_Witness ==
    /\ Grouped
    /\ completed = <<2, 1>>
    /\ Len(data_by_city) = 1
    /\ Len(data_by_city[1].val) = 2
    /\ data_by_city[1].val[1].station_id # data_by_city[1].val[2].station_id

\* ---- termination
\* What holds all along a run: no city makes more than 3 attempts; main is
\* past a phase only when every task submitted to that phase has finished;
\* the aggregate is the one the upstream responses determine, however long
\* a task took; and main ends only after the persist step.
RunDrainsPhases ==
    /\ \A c \in Cities : Len(outcomes[c]) <= 3
    /\ (TOKEN /\ pc \in {"dedup", "submit", "fetch", "group", "upload"}) =>
          Outstanding(cst) = {}
    /\ (TOKEN /\ pc \in {"group", "upload"}) =>
          (DOMAIN fst = 1..Len(unique_stations) /\ Outstanding(fst) = {})
    /\ Grouped => data_by_city = DeterminedAggregate
    /\ (TOKEN /\ pc = "returned") =>
          /\ Outstanding(cst) = {} /\ Outstanding(fst) = {}
          /\ localWrites + Len(bucket) > 0
\* main has returned its summary
MainReturned == pc = "returned" /\ ret.kind = "summary" /\ ret.success
\* main has ended by the exception of the failed fallback write
MainRaised ==
    /\ pc = "returned"
    /\ ret.kind = "raised"
    /\ localWrites = 1
    /\ ~LocalWritten

Names(objects) == {objects[i].name : i \in 1..Len(objects)}
\* The aggregate object, one object per city key of the aggregate, the summary
ExpectedNames ==
    {<<"thailand_air_quality">>, <<"summary">>}
    \cup {<<k, "air_quality">> : k \in Keys(data_by_city)}
\* upload_to_gcs has ended after a write failed that earlier writes preceded
WriteFailedAfterOthers ==
    /\ TOKEN /\ pc = "returned"
    /\ bucket # <<>>
    /\ ExpectedNames \ Names(bucket) # {}
\* The objects written before the failure are in the bucket as they were
\* written: the aggregate first, then the cities' objects in key order.
WrittenRemain ==
    /\ bucket[1] = Blob(<<"thailand_air_quality">>, Dumps(data_by_city))
    /\ Len(bucket) <= Len(data_by_city) + 1
    /\ \A i \in 2..Len(bucket) :
          bucket[i].name = <<data_by_city[i - 1].key, "air_quality">>
DurableReturned == pc = "returned" /\ ret.kind = "summary" /\ ret.output_file = "gs"

\* C24 as stated: upload_to_gcs returns the durable location only if the
\* aggregate object, one object per city key and the summary object have all
\* been written to the bucket; if one of these writes fails after earlier
\* ones succeeded, the objects already written remain in the bucket and the
\* local fallback location is returned.
C24_DurableOnlyIfAllWritten ==
    /\ DurableReturned =>
          (Names(bucket) = ExpectedNames /\ Len(bucket) = Len(data_by_city) + 2)
    /\ WriteFailedAfterOthers =>
          /\ WrittenRemain
          /\ ret.kind = "summary"
          /\ ret.output_file = "local"

\* C24 as amended: ... the objects already written remain in the bucket, and
\* the local fallback location is returned if the fallback write succeeds; if
\* it fails as well, upload_to_gcs raises and returns no location.
C24_DurableOnlyIfAllWrittenElseFallback ==
    /\ DurableReturned =>
          (Names(bucket) = ExpectedNames /\ Len(bucket) = Len(data_by_city) + 2)
    /\ WriteFailedAfterOthers =>
          /\ WrittenRemain
          /\ LocalWritten => (ret.kind = "summary" /\ ret.output_file = "local")
          /\ ~LocalWritten => ret.kind = "raised"

\* The write of the summary object failed after the aggregate object and the
\* objects of two cities were written; the local location was returned.
C24_Witness ==
    /\ WriteFailedAfterOthers
    /\ Len(data_by_city) = 2
    /\ Len(bucket) = 3
    /\ <<"summary">> \notin Names(bucket)
    /\ ret.output_file = "local"

====
